---- MODULE Spec2Model ----
(***************************************************************************)
(* Pairing heap (src/src/lib.rs): Node / Heap / Token, compare_and_link,   *)
(* CombineSiblings::combine_siblings, Heap::push / pop / decrease_key.     *)
(*                                                                         *)
(* Raw pointers are node addresses 1..MaxNodes, Null is ptr::null_mut().   *)
(* The heap memory is the function `nodes`; `status` says which addresses  *)
(* hold a Box that is currently allocated.                                 *)
(***************************************************************************)
EXTENDS Integers, Sequences, FiniteSets, TLC

\* ---------------------------------------------------------------- bounds
MaxNodes == 6          \* number of distinct addresses the allocator hands out
MaxLive  == 4          \* nodes in the heap at once when decrease_key is in play
MaxVal   == 1          \* values are 0..MaxVal (T = small unsigned integer)
MaxMisuseLive == 3     \* nodes in the heap at once when the caller breaks the contract
MaxStaleLive == 2      \* nodes in the heap when a stale token is used

\* ------------------------------------------------------------- constants
Null    == 0           \* ptr::null_mut()
NoValue == 0 - 1       \* Option::None of pop

Node == 1..MaxNodes
Ptr  == 0..MaxNodes
Val  == 0..MaxVal

VARIABLES
    nodes,       \* address -> Node<T> {value, first_child, prev, next}
    status,      \* address -> "unused" | "live" | "freed" (is there a Box at it)
    root,        \* Heap.root
    fault,       \* "none" | "null_deref" | "use_after_free" | "diverged"
    op,          \* the last call: "new" | "push" | "pop" | "decrease_key"
    ret,         \* result of the last pop (NoValue = None); NoValue after other calls
    tok,         \* Token returned by the last push / passed to the last decrease_key
    kids,        \* number of children of the root the last pop removed
    depth,       \* depth (root = 0) the node of the last decrease_key was at
    arg,         \* value given to the last push / set by f in the last decrease_key
    bag          \* the multiset a priority queue holds after the same calls

\* Heap.combine_siblings.tree_array is cleared (lib.rs:166) before every read
\* of it, so what it holds between two calls is dead: it is a value local to
\* combine_siblings here, not a variable.

vars == <<nodes, status, root, fault, op, ret, tok, kids, depth, arg, bag>>

\* Node::new(value)
NewNode(value) ==
    [value |-> value, first_child |-> Null, prev |-> Null, next |-> Null]

\* contents of an address that holds no Box (indeterminate; canonical here)
Blank == NewNode(0)

live == {n \in Node : status[n] = "live"}

\* ------------------------------------------------------- memory accessors
\* *p for a read: a null pointer has no cell, the access is reported in derefs
Rd(mem, p) == IF p = Null THEN Blank ELSE mem[p]

\* (*p).f = v
Set(mem, p, f, v) == IF p = Null THEN mem ELSE [mem EXCEPT ![p][f] = v]

\* into_mut(v): Some(&mut *v) unless v is null
into_mut(v) == IF v = Null THEN {} ELSE {v}

\* LET with the bound value computed once: TheOne({ e(x) : x \in {v} }) is e(v)
TheOne(S) == CHOOSE x \in S : TRUE

\* ------------------------------------------------------- compare_and_link
Greater(a, b) == a > b
LessOrEqual(a, b) == a <= b

\* second_r.value < first_r.value, with a the value of second, b of first
Less(a, b) == a < b

\* The branches of compare_and_link read first.prev, second.first_child,
\* second.next and first.first_child before any statement of the call has
\* written that field, so these reads are taken from the memory at entry;
\* first_r.next and second_r.next are re-read right after being assigned.

link_second_wins_relinks_prev(mem, first, second) ==
    LET fn == Rd(mem, second).first_child
        pv == Rd(mem, first).prev
        m1 == Set(mem, second, "prev", pv)
        m2 == Set(m1, first, "prev", second)
        m3 == Set(m2, first, "next", fn)
        m4 == Set(m3, fn, "prev", first)
        m5 == Set(m4, second, "first_child", first)
    IN  [mem |-> m5, res |-> second,
         derefs |-> {first, second} \cup into_mut(fn) \cup into_mut(pv)]

\* the branch taken when second is smaller (lines 115-122)
link_second_wins(mem, first, second) ==
    LET fn == Rd(mem, second).first_child                \* first_r.next after 117
        m1 == Set(mem, second, "prev", Rd(mem, first).prev)           \* 115
        m2 == Set(m1, first, "prev", second)                          \* 116
        m3 == Set(m2, first, "next", fn)                              \* 117
        m4 == Set(m3, fn, "prev", first)                              \* 118-120
        m5 == Set(m4, second, "first_child", first)                   \* 121
    IN  [mem |-> m5, res |-> second,
         derefs |-> {first, second} \cup into_mut(fn)]

link_first_wins_drops_children(mem, first, second) ==
    LET fn == Rd(mem, second).next
        m1 == Set(mem, second, "prev", first)
        m2 == Set(m1, first, "next", fn)
        m3 == Set(m2, fn, "prev", first)
        m6 == Set(m3, first, "first_child", second)
    IN  [mem |-> m6, res |-> first,
         derefs |-> {first, second} \cup into_mut(fn)]

\* the branch taken otherwise (lines 124-134)
link_first_wins(mem, first, second) ==
    LET fn == Rd(mem, second).next                       \* first_r.next after 125
        sn == Rd(mem, first).first_child                 \* second_r.next after 129
        m1 == Set(mem, second, "prev", first)                         \* 124
        m2 == Set(m1, first, "next", fn)                              \* 125
        m3 == Set(m2, fn, "prev", first)                              \* 126-128
        m4 == Set(m3, second, "next", sn)                             \* 129
        m5 == Set(m4, sn, "prev", second)                             \* 130-132
        m6 == Set(m5, first, "first_child", second)                   \* 133
    IN  [mem |-> m6, res |-> first,
         derefs |-> {first, second} \cup into_mut(fn) \cup into_mut(sn)]

compare_and_link(mem, first, second) ==
    IF second = Null
    THEN [mem |-> mem, res |-> first, derefs |-> {}]
    ELSE IF Less(Rd(mem, second).value, Rd(mem, first).value)
    THEN link_second_wins(mem, first, second)
    ELSE link_first_wins(mem, first, second)

\* ------------------------------------------------------- combine_siblings
\* the model stops a loop that has not ended after this many rounds
LoopFuel == MaxNodes + 1

\* tree_array[i] with the source's 0-based index
At(arr, i) == arr[i + 1]
Put(arr, i, p) == [arr EXCEPT ![i + 1] = p]

RECURSIVE collect_clears_prev(_, _, _, _, _)
collect_clears_prev(mem, first_sibling, arr, derefs, fuel) ==
    IF first_sibling = Null
    THEN [mem |-> mem, arr |-> arr, derefs |-> derefs, diverged |-> FALSE]
    ELSE IF fuel = 0
    THEN [mem |-> mem, arr |-> arr, derefs |-> derefs, diverged |-> TRUE]
    ELSE TheOne({
           collect_clears_prev(Set(m1, first_sibling, "prev", Null),
                               Rd(m1, first_sibling).next,
                               Append(arr, first_sibling),
                               derefs \cup {first_sibling, Rd(mem, first_sibling).prev},
                               fuel - 1) :
           m1 \in {Set(mem, Rd(mem, first_sibling).prev, "next", Null)} })

RECURSIVE collect_stops_early(_, _, _, _, _)
collect_stops_early(mem, first_sibling, arr, derefs, fuel) ==
    IF first_sibling = Null
    THEN [mem |-> mem, arr |-> arr, derefs |-> derefs, diverged |-> FALSE]
    ELSE IF fuel = 0
    THEN [mem |-> mem, arr |-> arr, derefs |-> derefs, diverged |-> TRUE]
    ELSE TheOne({
           collect_stops_early(m1, Rd(m1, first_sibling).next,
                               Append(arr, first_sibling),
                               derefs \cup {first_sibling, Rd(mem, first_sibling).prev},
                               fuel - 1) :
           m1 \in {Set(mem, first_sibling, "next", Null)} })

\* while let Some(first_sibling_r) = into_mut(first_sibling) { ... }
RECURSIVE CollectSiblings(_, _, _, _, _)
CollectSiblings(mem, first_sibling, arr, derefs, fuel) ==
    IF first_sibling = Null
    THEN [mem |-> mem, arr |-> arr, derefs |-> derefs, diverged |-> FALSE]
    ELSE IF fuel = 0
    THEN [mem |-> mem, arr |-> arr, derefs |-> derefs, diverged |-> TRUE]
    ELSE TheOne({
           CollectSiblings(m1, Rd(m1, first_sibling).next,
                           Append(arr, first_sibling),
                           derefs \cup {first_sibling, Rd(mem, first_sibling).prev},
                           fuel - 1) :
           m1 \in {Set(mem, Rd(mem, first_sibling).prev, "next", Null)} })

\* for chunk in tree_array.chunks_mut(2) { chunk[0] = compare_and_link(chunk[0], chunk[1]) }
RECURSIVE ForwardPass(_, _, _, _, _)
ForwardPass(mem, arr, idx, len, derefs) ==
    IF idx >= len
    THEN [mem |-> mem, arr |-> arr, derefs |-> derefs]
    ELSE TheOne({
           ForwardPass(l.mem, Put(arr, idx, l.res), idx + 2, len,
                       derefs \cup l.derefs) :
           l \in {compare_and_link(mem, At(arr, idx), At(arr, idx + 1))} })

\* usize, at the width the model keeps for it, and its subtraction
USize == 256
usize_sub(a, b) == (a - b) % USize

\* while end_idx >= 2 { let start_idx = end_idx - 2; ...; end_idx -= 2 }
\* `trail` lists the values end_idx has at the loop tests, the last one included
RECURSIVE BackwardPass(_, _, _, _)
BackwardPass(mem, arr, end_idx, derefs) ==
    IF ~(end_idx >= 2)
    THEN [mem |-> mem, arr |-> arr, derefs |-> derefs, trail |-> <<end_idx>>]
    ELSE TheOne({ TheOne({ [r EXCEPT !.trail = <<end_idx>> \o @] :
             r \in {BackwardPass(l.mem, Put(arr, usize_sub(end_idx, 2), l.res),
                                 usize_sub(end_idx, 2), derefs \cup l.derefs)} }) :
           l \in {compare_and_link(mem, At(arr, usize_sub(end_idx, 2)),
                                   At(arr, end_idx))} })

\* the collection loop and the padding, up to the start of the forward pass
CollectAndPad(mem, first_sibling) ==
    TheOne({ [mem |-> c.mem, arr |-> Append(c.arr, Null), derefs |-> c.derefs,
              diverged |-> c.diverged] :
             c \in {CollectSiblings(mem, first_sibling, <<>>, {}, LoopFuel)} })

logical_length(arr) == (Len(arr) \div 2) * 2

\* a plain left-to-right fold over the collected siblings
RECURSIVE FoldPass(_, _, _, _)
FoldPass(mem, arr, idx, derefs) ==
    IF idx > Len(arr) - 1
    THEN [mem |-> mem, arr |-> arr, derefs |-> derefs]
    ELSE TheOne({
           FoldPass(l.mem, Put(arr, 0, l.res), idx + 1, derefs \cup l.derefs) :
           l \in {compare_and_link(mem, At(arr, 0), At(arr, idx))} })

LeftFold(c) == FoldPass(c.mem, c.arr, 1, c.derefs)

forward_pass_only(c) ==
    ForwardPass(c.mem, c.arr, 0, logical_length(c.arr), c.derefs)

\* both passes over the padded array
TwoPasses(c) ==
    TheOne({ IF logical_length(c.arr) >= 4
             THEN BackwardPass(f.mem, f.arr, usize_sub(logical_length(c.arr), 2),
                               f.derefs)
             ELSE f :
             f \in {ForwardPass(c.mem, c.arr, 0, logical_length(c.arr), c.derefs)} })

combine_siblings(mem, first_sibling) ==
    IF Rd(mem, first_sibling).next = Null
    THEN [mem |-> mem, res |-> first_sibling, arr |-> <<>>,
          derefs |-> {first_sibling}, diverged |-> FALSE]
    ELSE TheOne({ TheOne({
           [mem |-> b.mem, res |-> At(b.arr, 0), arr |-> b.arr,
            derefs |-> b.derefs \cup {first_sibling}, diverged |-> c.diverged] :
           b \in {TwoPasses(c)} }) :
           c \in {CollectAndPad(mem, first_sibling)} })

\* ------------------------------------------------------------ Heap methods
push_swapped(mem, rt, node, value) ==
    IF rt = Null
    THEN [mem |-> [mem EXCEPT ![node] = NewNode(value)], root |-> node, derefs |-> {}]
    ELSE TheOne({ [mem |-> l.mem, root |-> l.res, derefs |-> l.derefs] :
                  l \in {compare_and_link([mem EXCEPT ![node] = NewNode(value)],
                                          node, rt)} })

\* Heap::push, given the address Box::new returned
push(mem, rt, node, value) ==
    IF rt = Null
    THEN [mem |-> [mem EXCEPT ![node] = NewNode(value)], root |-> node, derefs |-> {}]
    ELSE TheOne({ [mem |-> l.mem, root |-> l.res, derefs |-> l.derefs] :
                  l \in {compare_and_link([mem EXCEPT ![node] = NewNode(value)],
                                          rt, node)} })

pop_leaf_keeps_root(mem, rt) ==
    IF rt = Null
    THEN [mem |-> mem, root |-> rt, value |-> NoValue, freed |-> Null,
          derefs |-> {}, diverged |-> FALSE]
    ELSE IF Rd(mem, rt).first_child = Null
    THEN [mem |-> mem, root |-> rt, value |-> Rd(mem, rt).value, freed |-> rt,
          derefs |-> {rt}, diverged |-> FALSE]
    ELSE TheOne({ [mem |-> c.mem, root |-> c.res, value |-> Rd(mem, rt).value,
                   freed |-> rt, derefs |-> c.derefs \cup {rt},
                   diverged |-> c.diverged] :
                  c \in {combine_siblings(mem, Rd(mem, rt).first_child)} })

\* Heap::pop; `freed` is the Box dropped when pop returns
pop(mem, rt) ==
    IF rt = Null
    THEN [mem |-> mem, root |-> rt, value |-> NoValue, freed |-> Null,
          derefs |-> {}, diverged |-> FALSE]
    ELSE IF Rd(mem, rt).first_child = Null
    THEN [mem |-> mem, root |-> Null, value |-> Rd(mem, rt).value, freed |-> rt,
          derefs |-> {rt}, diverged |-> FALSE]
    ELSE TheOne({ [mem |-> c.mem, root |-> c.res, value |-> Rd(mem, rt).value,
                   freed |-> rt, derefs |-> c.derefs \cup {rt},
                   diverged |-> c.diverged] :
                  c \in {combine_siblings(mem, Rd(mem, rt).first_child)} })

\* The cut reads node.next, node.prev and prev.first_child, none of which a
\* statement of the cut has written before the read: taken from the memory at
\* entry.

unlink_keeps_next(mem, node) ==
    LET next == Rd(mem, node).next
        prev == Rd(mem, node).prev
        m1 == Set(mem, next, "prev", prev)
        m2 == IF Rd(mem, prev).first_child = node
              THEN Set(m1, prev, "first_child", next)
              ELSE Set(m1, prev, "next", next)
    IN  [mem |-> m2, derefs |-> {node, prev} \cup into_mut(next)]

unlink_no_prev_fix(mem, node) ==
    LET next == Rd(mem, node).next
        prev == Rd(mem, node).prev
        m2 == IF Rd(mem, prev).first_child = node
              THEN Set(mem, prev, "first_child", next)
              ELSE Set(mem, prev, "next", next)
        m3 == Set(m2, node, "next", Null)
    IN  [mem |-> m3, derefs |-> {node, prev} \cup into_mut(next)]

unlink_leaves_sibling(mem, node) ==
    LET next == Rd(mem, node).next
        prev == Rd(mem, node).prev
        m1 == Set(mem, next, "prev", prev)
        m2 == IF Rd(mem, prev).first_child = node
              THEN Set(m1, prev, "first_child", next)
              ELSE Set(m1, prev, "next", next)
        m3 == Set(m2, node, "next", Rd(mem, prev).next)
    IN  [mem |-> m3, derefs |-> {node, prev} \cup into_mut(next)]

\* the cut of decrease_key (lines 89-101): the node leaves its sibling list
unlink(mem, node) ==
    LET next == Rd(mem, node).next
        prev == Rd(mem, node).prev
        m1 == Set(mem, next, "prev", prev)                            \* 89-91
        m2 == IF Rd(mem, prev).first_child = node                     \* 95
              THEN Set(m1, prev, "first_child", next)                 \* 96
              ELSE Set(m1, prev, "next", next)                        \* 98
        m3 == Set(m2, node, "next", Null)                             \* 101
    IN  [mem |-> m3, derefs |-> {node, prev} \cup into_mut(next)]

cut_and_link_swapped(m0, rt, node) ==
    TheOne({ TheOne({
        [mem |-> l.mem, root |-> l.res, derefs |-> u.derefs \cup l.derefs] :
        l \in {compare_and_link(u.mem, node, rt)} }) :
        u \in {unlink(m0, node)} })

\* lines 89-102 of decrease_key, on the memory after f has run
cut_and_link(m0, rt, node) ==
    TheOne({ TheOne({
        [mem |-> l.mem, root |-> l.res, derefs |-> u.derefs \cup l.derefs] :
        l \in {compare_and_link(u.mem, rt, node)} }) :
        u \in {unlink(m0, node)} })

decrease_key_keeps_root(mem, rt, node, value) ==
    IF node = rt
    THEN [mem |-> Set(mem, node, "value", value), root |-> rt, derefs |-> {node}]
    ELSE TheOne({ [r EXCEPT !.root = rt] :
                  r \in {cut_and_link(Set(mem, node, "value", value), rt, node)} })

decrease_key_no_relink(mem, rt, node, value) ==
    [mem |-> Set(mem, node, "value", value), root |-> rt, derefs |-> {node}]

decrease_key_checked(mem, rt, node, value) ==
    IF value > Rd(mem, node).value
    THEN [mem |-> mem, root |-> rt, derefs |-> {node}]
    ELSE IF node = rt
    THEN [mem |-> Set(mem, node, "value", value), root |-> rt, derefs |-> {node}]
    ELSE cut_and_link(Set(mem, node, "value", value), rt, node)

decrease_key_live_only(mem, rt, node, value) ==
    IF status[node] # "live"
    THEN [mem |-> mem, root |-> rt, derefs |-> {}]
    ELSE IF node = rt
    THEN [mem |-> Set(mem, node, "value", value), root |-> rt, derefs |-> {node}]
    ELSE cut_and_link(Set(mem, node, "value", value), rt, node)

decrease_key_no_root_check(mem, rt, node, value) ==
    cut_and_link(Set(mem, node, "value", value), rt, node)

decrease_key_writes_root(mem, rt, node, value) ==
    IF node = rt
    THEN [mem |-> Set(mem, node, "value", value), root |-> rt, derefs |-> {node}]
    ELSE cut_and_link(Set(Set(mem, node, "value", value), rt, "value", value),
                      rt, node)

\* Heap::decrease_key with f = |v| *v = value
decrease_key(mem, rt, node, value) ==
    IF node = rt
    THEN [mem |-> Set(mem, node, "value", value), root |-> rt, derefs |-> {node}]
    ELSE cut_and_link(Set(mem, node, "value", value), rt, node)

\* what the dereferences of one call amount to, given the addresses that hold a Box
FaultOf(derefs, alloc, diverged) ==
    IF Null \in derefs THEN "null_deref"
    ELSE IF ~(derefs \subseteq alloc) THEN "use_after_free"
    ELSE IF diverged THEN "diverged"
    ELSE "none"

\* ------------------------------------------------------------------ state
Init ==
    /\ nodes = [n \in Node |-> Blank]
    /\ status = [n \in Node |-> "unused"]
    /\ root = Null
    /\ fault = "none"
    /\ op = "new"
    /\ ret = NoValue
    /\ tok = Null
    /\ kids = 0
    /\ depth = 0
    /\ arg = NoValue
    /\ bag = [v \in Val |-> 0]

\* Box::new: the code only compares addresses for equality, so the allocator
\* is taken to hand out the lowest address that holds no Box
Alloc == {n \in Node : status[n] # "live" /\ \A m \in 1..(n - 1) : status[m] = "live"}

\* h.push(value) while fewer than cap nodes are in the heap
PushUpTo(cap) ==
    /\ fault = "none"
    /\ Cardinality(live) < cap
    /\ \E node \in Alloc, value \in Val :
         \E r \in {push(nodes, root, node, value)} :
             /\ nodes' = r.mem
             /\ root' = r.root
             /\ status' = [status EXCEPT ![node] = "live"]
             /\ fault' = FaultOf(r.derefs, live \cup {node}, FALSE)
             /\ tok' = node
             /\ arg' = value
             /\ bag' = [bag EXCEPT ![value] = @ + 1]
    /\ op' = "push"
    /\ ret' = NoValue
    /\ kids' = 0
    /\ depth' = 0

Push == PushUpTo(MaxLive)

PushWide == PushUpTo(MaxNodes)

\* number of nodes on the next-chain that starts at c
RECURSIVE ChainLen(_, _, _)
ChainLen(mem, c, fuel) ==
    IF c = Null \/ fuel = 0 THEN 0 ELSE 1 + ChainLen(mem, Rd(mem, c).next, fuel - 1)

\* h.pop()
Pop ==
    /\ fault = "none"
    /\ \E r \in {pop(nodes, root)} :
           /\ root' = r.root
           /\ ret' = r.value
           /\ kids' = ChainLen(nodes, Rd(nodes, root).first_child, LoopFuel)
           /\ fault' = FaultOf(r.derefs, live, r.diverged)
           /\ status' = IF r.freed = Null THEN status
                        ELSE [status EXCEPT ![r.freed] = "freed"]
           /\ nodes' = IF r.freed = Null THEN r.mem
                       ELSE [r.mem EXCEPT ![r.freed] = Blank]
           /\ bag' = IF r.value \in Val THEN [bag EXCEPT ![r.value] = @ - 1] ELSE bag
    /\ op' = "pop"
    /\ tok' = Null
    /\ depth' = 0
    /\ arg' = NoValue

\* number of prev links from n back to the first node of its sibling list
\* whose prev is the parent, then on from the parent, up to the root
RECURSIVE DepthOf(_, _, _, _)
DepthOf(mem, rt, n, fuel) ==
    IF n = rt \/ n = Null \/ fuel = 0 THEN 0
    ELSE IF Rd(mem, Rd(mem, n).prev).first_child = n
    THEN 1 + DepthOf(mem, rt, Rd(mem, n).prev, fuel - 1)
    ELSE DepthOf(mem, rt, Rd(mem, n).prev, fuel - 1)

\* h.decrease_key(Token(node), |v| *v = value) by a caller that holds a token
\* of a node of the heap
DecreaseKeyCall(node, value) ==
    \E r \in {decrease_key(nodes, root, node, value)} :
        /\ nodes' = r.mem
        /\ root' = r.root
        /\ fault' = FaultOf(r.derefs, live, FALSE)
        /\ tok' = node
        /\ arg' = value
        /\ bag' = [[bag EXCEPT ![nodes[node].value] = @ - 1] EXCEPT ![value] = @ + 1]
        /\ op' = "decrease_key"
        /\ ret' = NoValue
        /\ kids' = 0
        /\ depth' = DepthOf(nodes, root, node, LoopFuel)
        /\ UNCHANGED status

\* within the contract: the value does not grow
DecreaseKey ==
    /\ fault = "none"
    /\ \E node \in live, value \in Val :
         /\ value <= nodes[node].value
         /\ DecreaseKeyCall(node, value)

Next == Push \/ Pop \/ DecreaseKey

Spec == Init /\ [][Next]_vars

\* the same call by a caller that breaks "Do not increase the key!"
IncreaseKey ==
    /\ fault = "none"
    /\ \E node \in live, value \in Val :
         /\ value > nodes[node].value
         /\ DecreaseKeyCall(node, value)

PushFew == PushUpTo(MaxMisuseLive)

NextMisuse == PushFew \/ Pop \/ DecreaseKey \/ IncreaseKey

SpecMisuse == Init /\ [][NextMisuse]_vars

\* The same call with the token of a node that pop has freed. Reading the
\* freed Box is undefined behaviour: its pointer fields may hold null, the
\* address of any node of the heap, or an address that holds no Box (the
\* token's own address stands for those); f overwrites the value without
\* reading it. A null dereference ends the process where it stands; any other
\* outcome leaves the memory the statements wrote. Nothing is modelled after
\* the undefined behaviour. Stale calls are explored on heaps of at most
\* MaxStaleLive nodes.
StalePtr(node) == {Null, node} \cup live

DecreaseKeyStale ==
    /\ fault = "none"
    /\ Cardinality(live) <= MaxStaleLive
    /\ \E node \in {n \in Node : status[n] = "freed"}, value \in Val :
       \E fc \in StalePtr(node), pv \in StalePtr(node), nx \in StalePtr(node) :
       \E r \in {decrease_key(
                    [nodes EXCEPT ![node] = [value |-> 0, first_child |-> fc,
                                             prev |-> pv, next |-> nx]],
                    root, node, value)} :
       \E f \in {FaultOf(r.derefs, live, FALSE)} :
         /\ fault' = f
         /\ nodes' = IF f = "null_deref" THEN nodes ELSE r.mem
         /\ root' = IF f = "null_deref" THEN root ELSE r.root
         /\ tok' = node
         /\ arg' = value
    /\ op' = "decrease_key"
    /\ ret' = NoValue
    /\ kids' = 0
    /\ depth' = 0
    /\ UNCHANGED <<status, bag>>

NextStale == PushFew \/ Pop \/ DecreaseKey \/ DecreaseKeyStale

SpecStale == Init /\ [][NextStale]_vars

\* push and pop only, on up to MaxNodes nodes
NextPushPop == PushWide \/ Pop

SpecPushPop == Init /\ [][NextPushPop]_vars

\* push and pop on up to MaxNodes nodes, decrease_key while at most MaxLive
\* nodes are in the heap
DecreaseKeyFew ==
    /\ Cardinality(live) <= MaxLive
    /\ DecreaseKey

NextWide == PushWide \/ Pop \/ DecreaseKeyFew

SpecWide == Init /\ [][NextWide]_vars

\* ------------------------------------------------- reading the tree shape
\* the sibling list that starts at c, left to right
RECURSIVE Chain(_, _, _)
Chain(mem, c, fuel) ==
    IF c = Null \/ fuel = 0 THEN <<>>
    ELSE <<c>> \o Chain(mem, Rd(mem, c).next, fuel - 1)

\* the children of p, leftmost first
KidsOf(mem, p) == Chain(mem, Rd(mem, p).first_child, LoopFuel)

\* everything reached from p over first_child and next links, in preorder
RECURSIVE Walk(_, _, _)
Walk(mem, p, fuel) ==
    IF p = Null \/ fuel = 0 THEN <<>>
    ELSE <<p>> \o Walk(mem, Rd(mem, p).first_child, fuel - 1)
               \o Walk(mem, Rd(mem, p).next, fuel - 1)

Members(mem, rt) == Walk(mem, rt, LoopFuel)

Range(s) == {s[i] : i \in DOMAIN s}

NoDup(s) == \A i, j \in DOMAIN s : i # j => s[i] # s[j]

\* the multiset of the values reached from the root
HeapBag(mem, rt) ==
    TheOne({ [v \in Val |-> Cardinality({i \in DOMAIN w : mem[w[i]].value = v})] :
             w \in {Members(mem, rt)} })

HeapOrdered(mem, alive) ==
    \A n \in alive : \A c \in Range(KidsOf(mem, n)) : mem[n].value <= mem[c].value

\* ------------------------------------------------------------------ claims

\* C1: after any sequence of push, pop and contract-abiding decrease_key calls,
\* a pop of a non-empty heap returns a value that is <= every value still in
\* the heap; so successive pops return non-decreasing values, and a pop returns
\* None exactly when the heap is empty.
PopReturnsMinimum ==
    (op = "pop" /\ ret # NoValue) => \A n \in live : ret <= nodes[n].value

DrainStep ==
    op' = "pop" =>
        /\ (ret' = NoValue) <=> (root = Null)
        /\ (op = "pop" /\ ret # NoValue /\ ret' # NoValue) => ret <= ret'
        /\ (op = "pop" /\ ret = NoValue) => ret' = NoValue

C1_PopInOrder == []PopReturnsMinimum /\ [][DrainStep]_vars

\* a pop of a root with two or more children returned 0 and left a 1 behind
C1_Witness ==
    /\ op = "pop" /\ ret # NoValue /\ kids >= 2
    /\ \E n \in live : nodes[n].value > ret

\* C2: across any interleaving of push and pop, the values returned by
\* successful pops plus the values still in the heap are the values pushed
\* (bag = pushed minus popped, as multisets), duplicates included, and the
\* heap reports empty exactly when as many values were popped as pushed.
C2_MultisetPreserved ==
    /\ \A v \in Val : bag[v] >= 0
    /\ HeapBag(nodes, root) = bag
    /\ (root = Null) <=> (\A v \in Val : bag[v] = 0)

\* a pop returned one copy of a value of which another copy is still stored
C2_Witness ==
    /\ op = "pop" /\ ret # NoValue /\ kids >= 2
    /\ bag[ret] >= 1

\* C3: if decrease_key, called with the token of a node of the heap (the root
\* or a node at any depth), sets its value strictly below every other value,
\* the next pop returns that value; and every pop returns the least value of
\* the multiset the heap holds and removes one copy of it, so the pops that
\* follow return the remaining values in non-decreasing order, each once, and
\* then None.
StrictlySmallest(n) ==
    /\ n \in live
    /\ \A m \in live \ {n} : nodes[n].value < nodes[m].value

DecreasedKeyPopsFirst ==
    (op = "decrease_key" /\ StrictlySmallest(tok) /\ op' = "pop")
        => ret' = nodes[tok].value

PopFollowsQueue ==
    op' = "pop" =>
        IF \A v \in Val : bag[v] = 0
        THEN ret' = NoValue /\ bag' = bag
        ELSE /\ ret' \in Val
             /\ bag[ret'] > 0
             /\ \A v \in Val : v < ret' => bag[v] = 0
             /\ bag' = [bag EXCEPT ![ret'] = @ - 1]
             /\ HeapBag(nodes', root') = bag'

C3_DecreaseKeyEffect == [][DecreasedKeyPopsFirst /\ PopFollowsQueue]_vars

\* decrease_key has just made a node two or more levels down the strictly
\* smallest, with other values in the heap
C3_Witness ==
    /\ op = "decrease_key" /\ depth >= 2
    /\ StrictlySmallest(tok)
    /\ Cardinality(live) >= 3

\* C4: pop on an empty heap (new, or drained by pops) returns None, raises
\* nothing and changes nothing; the heap is empty exactly when no node is
\* left; a push on an empty heap makes the new node the root of a one-node heap.
EmptyIffNoNode == (root = Null) <=> (live = {})

PopOnEmpty ==
    (root = Null /\ op' = "pop") =>
        /\ ret' = NoValue
        /\ root' = Null
        /\ nodes' = nodes
        /\ status' = status
        /\ fault' = "none"

PushOnEmpty ==
    (root = Null /\ op' = "push") =>
        /\ root' = tok'
        /\ tok' # Null
        /\ status'[tok'] = "live"
        /\ \A n \in Node \ {tok'} : status'[n] # "live"
        /\ nodes'[tok'].first_child = Null
        /\ nodes'[tok'].prev = Null
        /\ nodes'[tok'].next = Null
        /\ fault' = "none"

C4_EmptinessStable == []EmptyIffNoNode /\ [][PopOnEmpty /\ PushOnEmpty]_vars

\* a heap that held nodes was drained and then popped once more
C4_Witness ==
    /\ op = "pop" /\ ret = NoValue /\ root = Null
    /\ \E n \in Node : status[n] = "freed"

\* C5: between operations every node's value is <= the value of each of its
\* children, and the root holds a minimum of the values in the heap.
C5_HeapOrder ==
    /\ HeapOrdered(nodes, live)
    /\ \A n \in live : Rd(nodes, root).value <= nodes[n].value

\* decrease_key lowered a non-root node that has children and stays below the root
C5_Witness ==
    /\ op = "decrease_key" /\ depth >= 1 /\ root # tok
    /\ Rd(nodes, tok).first_child # Null
    /\ \E n \in live : nodes[n].value > nodes[tok].value

\* C6: between operations the nodes reached from the root over first_child
\* and next links form a finite tree without cycles, in which every node pushed
\* and not yet popped appears exactly once and no popped node appears.
C6_ForestShape ==
    \E w \in {Members(nodes, root)} :
        /\ NoDup(w)
        /\ Range(w) = live
        /\ Len(w) = Cardinality(live)

\* a pop combined three siblings and two nodes have been freed so far
C6_Witness ==
    /\ op = "pop" /\ kids >= 3
    /\ Cardinality({n \in Node : status[n] = "freed"}) >= 1
    /\ Cardinality(live) >= 3

\* C7: decrease_key applies the caller's mutation without comparing old and
\* new value and without an error: a call that raises a node's value above the
\* value of one of its children completes normally and leaves the heap out of
\* min-heap order (after which a pop can return a value that is not the least).
KeyIncreaseIsSilent ==
    (op' = "decrease_key" /\ tok' \in live /\ arg' > nodes[tok'].value) =>
        /\ nodes'[tok'].value = arg'
        /\ fault' = "none"
        /\ status' = status
        /\ (\E c \in Range(KidsOf(nodes, tok')) : arg' > nodes[c].value)
               => ~HeapOrdered(nodes', live)

C7_KeyIncreaseSilent == [][KeyIncreaseIsSilent]_vars

\* after a key was raised, a pop returned a value while a smaller one is stored
C7_Witness ==
    /\ op = "pop" /\ ret # NoValue /\ fault = "none"
    /\ \E n \in live : nodes[n].value < ret

\* C8: decrease_key makes no liveness check on its token: called with the
\* token of a node that pop has freed, it is not refused and dereferences the
\* freed node (a use after free, or a null dereference on what it read there),
\* and it can link the freed node into the heap.
StaleTokenIsUsed ==
    (op' = "decrease_key" /\ status[tok'] = "freed") =>
        fault' \in {"use_after_free", "null_deref"}

C8_StaleTokenUndetected == [][StaleTokenIsUsed]_vars

\* the freed node has been written to and is now the root or a child of a node
C8_Witness ==
    /\ op = "decrease_key" /\ fault = "use_after_free"
    /\ status[tok] = "freed"
    /\ nodes[tok].value = arg
    /\ \/ root = tok
       \/ \E n \in live : nodes[n].first_child = tok

\* C9: compare_and_link(a, b) with b absent returns a and changes nothing;
\* with both present it returns b iff b's value is strictly less than a's
\* (a on equal values); the loser becomes the winner's leftmost child, in front
\* of the winner's previous children, whose order is kept; the child lists of
\* all other nodes, the loser's included, and all values are unchanged.
\* Checked on the calls push, decrease_key and a pop of a root with two
\* children make.
LinkedAsClaimed(m, a, b, m2, res, alive) ==
    /\ res = (IF m[b].value < m[a].value THEN b ELSE a)
    /\ KidsOf(m2, res) = <<(IF res = a THEN b ELSE a)>> \o KidsOf(m, res)
    /\ \A n \in alive \ {res} : KidsOf(m2, n) = KidsOf(m, n)
    /\ \A n \in alive : m2[n].value = m[n].value

AbsentPartner ==
    \A n \in live : /\ compare_and_link(nodes, n, Null).res = n
                    /\ compare_and_link(nodes, n, Null).mem = nodes

LinkOnPush ==
    (op' = "push" /\ root # Null) =>
        \E m \in {[nodes EXCEPT ![tok'] = NewNode(arg')]} :
            LinkedAsClaimed(m, root, tok', nodes', root', live')

LinkOnDecreaseKey ==
    (op' = "decrease_key" /\ tok' # root) =>
        \E m \in {unlink(Set(nodes, tok', "value", arg'), tok').mem} :
            LinkedAsClaimed(m, root, tok', nodes', root', live')

LinkOnPopOfTwo ==
    (op' = "pop" /\ kids' = 2) =>
        \E m \in {CollectAndPad(nodes, nodes[root].first_child).mem} :
        \E cs \in {KidsOf(nodes, root)} :
            LinkedAsClaimed(m, cs[1], cs[2], nodes', root', live')

C9_LinkResult ==
    []AbsentPartner /\ [][LinkOnPush /\ LinkOnDecreaseKey /\ LinkOnPopOfTwo]_vars

\* a push of a value equal to the root's: the new node lost the tie and stands
\* in front of the root's earlier children
C9_Witness ==
    /\ op = "push" /\ root # tok
    /\ nodes[root].value = nodes[tok].value
    /\ nodes[root].first_child = tok
    /\ nodes[tok].next # Null

\* C10: for a popped root with children c0..c(k-1), k >= 2, the new root and
\* the links of all nodes are those of the two passes: first p_i =
\* link(c_2i, c_2i+1) left to right (the last child alone when k is odd), then
\* link(p_0, link(p_1, ... link(p_m-2, p_m-1))) from the right; the result is
\* heap-ordered and holds exactly the nodes of the k subtrees.
\* every child of the removed root cut from its siblings
Severed(mem, rt) ==
    [n \in Node |-> IF n = rt \/ n \in Range(KidsOf(mem, rt))
                    THEN [mem[n] EXCEPT !.next = Null] ELSE mem[n]]

\* p_0, p_1, ... from the children cs, given from position i on
RECURSIVE PairUp(_, _, _)
PairUp(mem, cs, i) ==
    IF i > Len(cs) THEN [mem |-> mem, ps |-> <<>>]
    ELSE IF i = Len(cs) THEN [mem |-> mem, ps |-> <<cs[i]>>]
    ELSE TheOne({ TheOne({ [mem |-> r.mem, ps |-> <<l.res>> \o r.ps] :
                           r \in {PairUp(l.mem, cs, i + 2)} }) :
                  l \in {compare_and_link(mem, cs[i], cs[i + 1])} })

\* link(p_i, link(p_i+1, ...))
RECURSIVE AccumulateFromRight(_, _, _)
AccumulateFromRight(mem, ps, i) ==
    IF i = Len(ps) THEN [mem |-> mem, res |-> ps[i]]
    ELSE TheOne({ TheOne({ [mem |-> l.mem, res |-> l.res] :
                           l \in {compare_and_link(r.mem, ps[i], r.res)} }) :
                  r \in {AccumulateFromRight(mem, ps, i + 1)} })

TwoPassByClaim(mem, rt) ==
    TheOne({ AccumulateFromRight(p.mem, p.ps, 1) :
             p \in {PairUp(Severed(mem, rt), KidsOf(mem, rt), 1)} })

PopIsTwoPass ==
    (op' = "pop" /\ kids' >= 2) =>
        \E t \in {TwoPassByClaim(nodes, root)} :
            /\ root' = t.res
            /\ \A n \in live' : nodes'[n] = t.mem[n]
            /\ HeapOrdered(nodes', live')
            /\ NoDup(Members(nodes', root'))
            /\ Range(Members(nodes', root')) = Range(Members(nodes, root)) \ {root}

C10_TwoPassCombine == [][PopIsTwoPass]_vars

\* a pop has combined five siblings: an odd count, two rounds of the backward pass
C10_Witness ==
    /\ op = "pop" /\ kids = 5
    /\ Cardinality(live) = 5

\* C11: between operations every live node n other than the root has a live
\* prev that is its parent when n is the parent's first_child and otherwise is
\* the node whose next is n; conversely every next link m.next = n has
\* n.prev = m and every first_child link p.first_child = n has n.prev = p.
C11_PrevLinks ==
    /\ \A n \in live \ {root} :
         /\ nodes[n].prev \in live
         /\ \/ nodes[nodes[n].prev].first_child = n
            \/ nodes[nodes[n].prev].next = n
         /\ \A p \in live : nodes[p].first_child = n => nodes[n].prev = p
    /\ \A m \in live :
         /\ nodes[m].next # Null => Rd(nodes, nodes[m].next).prev = m
         /\ nodes[m].first_child # Null => Rd(nodes, nodes[m].first_child).prev = m

\* after a decrease_key on a non-root node some node has a left sibling, and
\* the root still carries the address of a node an earlier pop freed as prev
C11_Witness ==
    /\ op = "decrease_key" /\ depth >= 1
    /\ \E n \in live \ {root} : Rd(nodes, nodes[n].prev).next = n
    /\ nodes[root].prev # Null /\ status[nodes[root].prev] # "live"

\* the sequence s with every occurrence of n left out
Without(s, n) ==
    LET keep(x) == x # n IN SelectSeq(s, keep)

\* C12: decrease_key on a live node n that is not the root takes n, with its
\* subtree, out of its sibling list (the remaining siblings keep their order,
\* n's descendants keep theirs) and links it with the root: n becomes the root
\* with the old root as its leftmost child iff n's new value is strictly less
\* than the root's value; otherwise the root stays and n becomes its leftmost
\* child.
CutThenLink ==
    (op' = "decrease_key" /\ tok' \in live /\ tok' # root) =>
        \E n \in {tok'} :
        \E wins \in {arg' < nodes[root].value} :
            /\ root' = (IF wins THEN n ELSE root)
            /\ KidsOf(nodes', n) =
                 (IF wins THEN <<root>> ELSE <<>>) \o KidsOf(nodes, n)
            /\ KidsOf(nodes', root) =
                 (IF wins THEN <<>> ELSE <<n>>) \o Without(KidsOf(nodes, root), n)
            /\ \A m \in live \ {n, root} :
                 KidsOf(nodes', m) = Without(KidsOf(nodes, m), n)
            /\ nodes'[root'].next = Null
            /\ status' = status

C12_DecreaseKeyCut == [][CutThenLink]_vars

\* a node below the root, with children of its own, was cut and became the
\* root: the old root stands in front of its earlier children
C12_Witness ==
    /\ op = "decrease_key" /\ depth >= 1 /\ root = tok
    /\ Len(KidsOf(nodes, tok)) >= 2
    /\ Cardinality(live) >= 4

\* C13: decrease_key with the token of the current root writes the new value
\* into the root and changes nothing else: the root stays the root and every
\* first_child, prev and next link of every node is as before.
RootKeyOnly ==
    (op' = "decrease_key" /\ tok' = root) =>
        /\ root' = root
        /\ nodes' = [nodes EXCEPT ![root].value = arg']
        /\ status' = status
        /\ fault' = "none"

C13_RootDecreaseFrame == [][RootKeyOnly]_vars

\* the key of a root with two or more children was lowered below all others
C13_Witness ==
    /\ op = "decrease_key" /\ tok = root /\ root # Null /\ depth = 0
    /\ Len(KidsOf(nodes, root)) >= 2
    /\ StrictlySmallest(root)

\* C14: push(v) on an empty heap makes the new node the root; on a non-empty
\* heap the new node becomes the root, with the old root as its only child, iff
\* v is strictly less than the root's value, and otherwise the leftmost child
\* of the unchanged root; the child lists of the old nodes are otherwise as
\* before, and the token returned is the new node.
PushPlacesNode ==
    op' = "push" =>
        /\ tok' \notin live /\ live' = live \cup {tok'}
        /\ nodes'[tok'].value = arg'
        /\ \A m \in live : nodes'[m].value = nodes[m].value
        /\ \A m \in live \ {root} : KidsOf(nodes', m) = KidsOf(nodes, m)
        /\ IF root = Null
           THEN root' = tok' /\ KidsOf(nodes', tok') = <<>>
           ELSE IF arg' < nodes[root].value
           THEN /\ root' = tok'
                /\ KidsOf(nodes', tok') = <<root>>
                /\ KidsOf(nodes', root) = KidsOf(nodes, root)
           ELSE /\ root' = root
                /\ KidsOf(nodes', tok') = <<>>
                /\ KidsOf(nodes', root) = <<tok'>> \o KidsOf(nodes, root)

C14_PushPlacement == [][PushPlacesNode]_vars

\* a smaller value was pushed onto a heap whose root had two or more children
C14_Witness ==
    /\ op = "push" /\ root = tok
    /\ Len(KidsOf(nodes, root)) = 1
    /\ Len(KidsOf(nodes, nodes[root].first_child)) >= 2

\* C15: a pop of a non-empty heap returns the value of the node that was the
\* root; a leaf root leaves the heap empty; a root with exactly one child
\* leaves that child as the root with no link made (no field of a remaining
\* node is written); a root with two or more children leaves one of them as
\* the root, one that holds a minimal value among them.
PopEdgeCases ==
    (op' = "pop" /\ root # Null) =>
        /\ ret' = nodes[root].value
        /\ status' = [status EXCEPT ![root] = "freed"]
        /\ kids' = 0 => root' = Null
        /\ kids' = 1 => /\ root' = nodes[root].first_child
                        /\ \A n \in live' : nodes'[n] = nodes[n]
        /\ kids' >= 2 =>
             \E cs \in {Range(KidsOf(nodes, root))} :
                 /\ root' \in cs
                 /\ \A c \in cs : nodes[root'].value <= nodes[c].value

C15_PopEdgeCases == [][PopEdgeCases]_vars

\* the only child of the popped root is the root now; it has children of its
\* own and its prev still holds the address of the node just freed
C15_Witness ==
    /\ op = "pop" /\ kids = 1 /\ root # Null
    /\ Len(KidsOf(nodes, root)) >= 2
    /\ nodes[root].prev # Null /\ status[nodes[root].prev] = "freed"

\* C16: push adds exactly one node, a pop of a non-empty heap removes exactly
\* the root node, decrease_key neither adds nor removes a node; the address a
\* token holds keeps its node, with its value, through every later push, pop
\* of another node and decrease_key of another node; decrease_key(token, f)
\* changes the value of the token's node only.
NodeLifecycle ==
    /\ op' = "push" => tok' \notin live /\ live' = live \cup {tok'}
    /\ op' = "pop" => live' = live \ {root}
    /\ op' = "decrease_key" => live' = live
    /\ \A n \in live :
         \/ op' = "pop" /\ n = root /\ n \notin live'
         \/ op' = "decrease_key" /\ n = tok' /\ n \in live'
                                 /\ nodes'[n].value = arg'
         \/ n \in live' /\ nodes'[n].value = nodes[n].value

C16_NodeLifecycle == [][NodeLifecycle]_vars

\* decrease_key is called with the token of a non-root node of a heap of three
\* or more nodes after a pop has freed another node
C16_Witness ==
    /\ op = "decrease_key" /\ depth >= 1 /\ tok \in live
    /\ nodes[tok].value = arg
    /\ \E m \in Node : status[m] = "freed"
    /\ Cardinality(live) >= 3

\* C17 (as the code has it): when pop combines two or more siblings, the
\* collection loop puts them into the sequence in order and writes one field
\* per round, the next link of the collected node's predecessor; when the
\* forward pass starts every collected subtree root has an absent next link,
\* while its prev link is as before: the removed root for the first, the left
\* sibling for every other one. No other field has been written.
CollectionSevers ==
    (op' = "pop" /\ kids' >= 2) =>
        \E c \in {CollectAndPad(nodes, nodes[root].first_child)} :
        \E cs \in {KidsOf(nodes, root)} :
            /\ c.arr = cs \o <<Null>>
            /\ \A i \in DOMAIN cs :
                 /\ c.mem[cs[i]].next = Null
                 /\ c.mem[cs[i]].prev = (IF i = 1 THEN root ELSE cs[i - 1])
            /\ \A n \in Node :
                 c.mem[n] = (IF n \in Range(cs)
                             THEN [nodes[n] EXCEPT !.next = Null] ELSE nodes[n])
            /\ root' = At(TwoPasses(c).arr, 0)

C17_CollectionSeversNext == [][CollectionSevers]_vars

\* C17 (as stated): when the forward pass starts every collected subtree root
\* has both its prev link and its next link absent.
CollectionClearsBoth ==
    (op' = "pop" /\ kids' >= 2) =>
        \E c \in {CollectAndPad(nodes, nodes[root].first_child)} :
            \A n \in Range(KidsOf(nodes, root)) :
                c.mem[n].prev = Null /\ c.mem[n].next = Null

C17_AsStated == [][CollectionClearsBoth]_vars

\* three or more siblings were combined and the node that came out as the
\* root still has the prev link it had as a sibling
C17_Witness ==
    /\ op = "pop" /\ kids >= 3 /\ root # Null
    /\ nodes[root].prev # Null

\* C18: under push, pop and decrease_key on live tokens no call reads or
\* writes a field of a node that pop has freed, and none dereferences null:
\* every address a call dereferences holds a Box during the call (the live
\* nodes, the root being popped among them). The prev that decrease_key
\* dereferences for a non-root node, and each prev the collection loop
\* dereferences, is a live node or the root being popped; the root's own prev,
\* which may hold the address of a freed node, is not among the addresses
\* dereferenced.
NoFault == fault = "none"

\* the addresses the call of this step dereferences when it starts on mem
DerefsOfStep(mem) ==
    IF op' = "push" THEN push(mem, root, tok', arg').derefs
    ELSE IF op' = "pop" THEN pop(mem, root).derefs
    ELSE decrease_key(mem, root, tok', arg').derefs

\* the call dereferences only addresses that hold a Box, and the same ones,
\* null not among them, when the root's prev is null instead of what it holds
OnlyLiveDereferenced ==
    /\ \E d \in {DerefsOfStep(nodes)} :
         /\ d \subseteq (live \cup live')
         /\ DerefsOfStep(Set(nodes, root, "prev", Null)) = d
    /\ (op' = "decrease_key" /\ tok' # root) => nodes[tok'].prev \in live
    /\ (op' = "pop" /\ kids' >= 2) =>
         \A c \in Range(KidsOf(nodes, root)) : nodes[c].prev \in live

C18_MemorySafety == []NoFault /\ [][OnlyLiveDereferenced]_vars

\* a pop combined two or more siblings without a fault; the prev of the new
\* root holds the address of a freed node, and two nodes are freed by now
C18_Witness ==
    /\ op = "pop" /\ kids >= 2 /\ fault = "none"
    /\ nodes[root].prev # Null /\ status[nodes[root].prev] = "freed"
    /\ Cardinality({n \in Node : status[n] = "freed"}) >= 2

\* the nodes of the subtree whose root is r
Subtree(mem, r) ==
    IF r = Null THEN {}
    ELSE {r} \cup Range(Walk(mem, Rd(mem, r).first_child, LoopFuel))

\* what C19 says of one call compare_and_link(a, b): a, and b when present,
\* are roots of disjoint subtrees with absent next links; then the call stores
\* an absent next in its non-swapping branch and returns a node without sibling
LinkPrecondition(mem, a, b) ==
    /\ a # Null /\ mem[a].next = Null
    /\ b # Null =>
         /\ mem[b].next = Null
         /\ Subtree(mem, a) \cap Subtree(mem, b) = {}
         /\ \E l \in {compare_and_link(mem, a, b)} : l.mem[l.res].next = Null

\* the calls of the forward pass: the call for the chunk at idx is made on the
\* memory the pass has produced for the chunks before idx
ForwardCallsOk(c) ==
    \A idx \in {i \in 0..(logical_length(c.arr) - 2) : i % 2 = 0} :
        \E f \in {ForwardPass(c.mem, c.arr, 0, idx, {})} :
            LinkPrecondition(f.mem, At(f.arr, idx), At(f.arr, idx + 1))

\* the calls of the backward pass, from end_idx down; ends with the memory and
\* the array the calls leave
RECURSIVE BackwardCalls(_, _, _)
BackwardCalls(mem, arr, end_idx) ==
    IF end_idx < 2 THEN [ok |-> TRUE, mem |-> mem, arr |-> arr]
    ELSE TheOne({ TheOne({ [r EXCEPT !.ok = @ /\ pre] :
             r \in {BackwardCalls(l.mem, Put(arr, end_idx - 2, l.res), end_idx - 2)} }) :
           l \in {compare_and_link(mem, At(arr, end_idx - 2), At(arr, end_idx))},
           pre \in {LinkPrecondition(mem, At(arr, end_idx - 2), At(arr, end_idx))} })

\* C19: between operations the root's next link is absent; at every call of
\* compare_and_link made by push, decrease_key and combine_siblings the first
\* argument, and the second unless it is the absent padding entry, is the root
\* of a subtree with an absent next link, and the two subtrees are disjoint;
\* so first.next = second.next stores absent and the node returned has no
\* sibling.
RootHasNoSibling == Rd(nodes, root).next = Null

LinkCallsOfPush ==
    (op' = "push" /\ root # Null) =>
        LinkPrecondition([nodes EXCEPT ![tok'] = NewNode(arg')], root, tok')

LinkCallsOfDecreaseKey ==
    (op' = "decrease_key" /\ tok' # root) =>
        /\ LinkPrecondition(unlink(Set(nodes, tok', "value", arg'), tok').mem,
                            root, tok')
        /\ tok' # Null

LinkCallsOfPop ==
    (op' = "pop" /\ kids' >= 2) =>
        \E c \in {CollectAndPad(nodes, nodes[root].first_child)} :
        \E f \in {ForwardPass(c.mem, c.arr, 0, logical_length(c.arr), {})} :
        \E b \in {BackwardCalls(f.mem, f.arr, logical_length(c.arr) - 2)} :
            /\ ForwardCallsOk(c)
            /\ b.ok
            /\ root' = At(b.arr, 0)
            /\ \A n \in live' : nodes'[n] = b.mem[n]

C19_LinkPrecondition ==
    []RootHasNoSibling
        /\ [][LinkCallsOfPush /\ LinkCallsOfDecreaseKey /\ LinkCallsOfPop]_vars

\* a pop of a root with five children, some of them holding 0: the backward
\* pass made two calls, the second on the node the first returned
C19_Witness ==
    /\ op = "pop" /\ kids = 5 /\ root # Null
    /\ \E n \in live : nodes[n].value = 0 /\ n # root
    /\ Len(KidsOf(nodes, root)) >= 2

\* the children of rt, found over the prev links
ChildrenOf(mem, rt, alive) ==
    {n \in alive \ {rt} : DepthOf(mem, rt, n, LoopFuel) = 1}

\* C20: every push, pop and decrease_key ends: no call runs a loop without end
\* from a reachable state. In a pop that combines k >= 2 children the
\* collection loop ends with each child in the sequence exactly once, followed
\* by the padding entry; the part of the sequence the passes use has even
\* length and holds all k children; the index of the backward pass goes down
\* by 2 from that length minus 2 to 0, each value inside the sequence and none
\* below zero (no subtraction wraps), and the loop exits at 0.
NoDivergence == fault # "diverged"

PopLoopsEnd ==
    (op' = "pop" /\ kids' >= 2) =>
        \E c \in {CollectAndPad(nodes, nodes[root].first_child)} :
        \E ch \in {ChildrenOf(nodes, root, live)} :
        \E len \in {logical_length(c.arr)} :
        \E b \in {TwoPasses(c)} :
            /\ ~c.diverged
            /\ Len(c.arr) = Cardinality(ch) + 1
            /\ {c.arr[i] : i \in 1..(Len(c.arr) - 1)} = ch
            /\ c.arr[Len(c.arr)] = Null
            /\ len % 2 = 0 /\ len >= Cardinality(ch) /\ len <= Len(c.arr)
            /\ len >= 4 =>
                 /\ Len(b.trail) = len \div 2
                 /\ \A i \in DOMAIN b.trail :
                      /\ b.trail[i] = len - 2 * i
                      /\ b.trail[i] \in 0..(len - 1)
            /\ root' = At(b.arr, 0)
            /\ fault' = "none"

C20_Termination == []NoDivergence /\ [][PopLoopsEnd]_vars

\* a pop combined four children, an even count that leaves the padding entry
\* outside the part the passes use, in a heap that had a grandchild too
C20_Witness ==
    /\ op = "pop" /\ kids = 4 /\ fault = "none"
    /\ Cardinality(live) >= 5

====
